---- MODULE Spec2Model ----
(***************************************************************************)
(* Model of cosmos_tls_scanner.py: the request signer (_get_auth_header),  *)
(* the two request builders (list_databases, basic_query), the candidate   *)
(* enumeration (_get_supported_ssl_versions) and the probing loop of main. *)
(*                                                                         *)
(* Text is modelled as a sequence of one-character strings, so that        *)
(* lower-casing, stripping, substring search and base64 decoding are       *)
(* computed character by character as the Python code computes them.       *)
(***************************************************************************)
EXTENDS Integers, Sequences, FiniteSets, TLC

\* ------------------------------------------------------------------ bounds
\* Longest response body drawn when the classification is checked alone.
MaxBodyLen == 3

\* ------------------------------------------------------- Python values
\* A Python value that is either None or an int.
PyNone == [none |-> TRUE, val |-> 0]
PyInt(n) == [none |-> FALSE, val |-> n]
\* A Python value that is either None or a str.
StrNone == [none |-> TRUE, s |-> <<>>]
PyStr(s) == [none |-> FALSE, s |-> s]

\* TruthyInt with None taken for a protocol value.
TruthyInt_NoneOffered(v) == v.none \/ v.val # 0
\* bool(x) of an Optional[int]: None and 0 are falsy.
TruthyInt(v) == ~v.none /\ v.val # 0
\* bool(x) of an Optional[str]: None and "" are falsy.
TruthyStr(v) == ~v.none /\ v.s # <<>>

\* ------------------------------------------------------------ characters
UpperCase == <<"A","B","C","D","E","F","G","H","I","J","K","L","M",
               "N","O","P","Q","R","S","T","U","V","W","X","Y","Z">>
LowerCase == <<"a","b","c","d","e","f","g","h","i","j","k","l","m",
               "n","o","p","q","r","s","t","u","v","w","x","y","z">>
DigitChars == <<"0","1","2","3","4","5","6","7","8","9">>
Whitespace == {" ", "\t", "\n", "\r"}

Letters == {UpperCase[k] : k \in 1..Len(UpperCase)}
              \cup {LowerCase[k] : k \in 1..Len(LowerCase)}
LowerMap == [c \in Letters |->
                IF \E k \in 1..Len(UpperCase) : UpperCase[k] = c
                THEN LowerCase[CHOOSE k \in 1..Len(UpperCase) : UpperCase[k] = c]
                ELSE c]
UpperMap == [c \in Letters |->
                IF \E k \in 1..Len(LowerCase) : LowerCase[k] = c
                THEN UpperCase[CHOOSE k \in 1..Len(LowerCase) : LowerCase[k] = c]
                ELSE c]
\* Characters that are not letters have no case.
LowerChar(c) == IF c \in Letters THEN LowerMap[c] ELSE c
UpperChar(c) == IF c \in Letters THEN UpperMap[c] ELSE c

\* str.lower()
Lower(s) == [k \in 1..Len(s) |-> LowerChar(s[k])]
\* str.upper(), which requests applies to the method of a prepared request
Upper(s) == [k \in 1..Len(s) |-> UpperChar(s[k])]

\* str.strip(): drop leading and trailing whitespace
RECURSIVE LStrip(_)
LStrip(s) == IF s # <<>> /\ Head(s) \in Whitespace THEN LStrip(Tail(s)) ELSE s
RECURSIVE RStrip(_)
RStrip(s) ==
    IF s # <<>> /\ s[Len(s)] \in Whitespace
    THEN RStrip(SubSeq(s, 1, Len(s) - 1)) ELSE s
Strip(s) == RStrip(LStrip(s))

\* needle in haystack (Python's substring test)
Contains(hay, needle) ==
    \E k \in 1..(Len(hay) - Len(needle) + 1) :
        SubSeq(hay, k, k + Len(needle) - 1) = needle

\* All sequences over alphabet of length at most n.
RECURSIVE SeqsUpTo(_, _)
SeqsUpTo(alphabet, n) ==
    IF n = 0 THEN {<<>>}
    ELSE LET shorter == SeqsUpTo(alphabet, n - 1)
         IN  shorter \cup {Append(s, c) : s \in shorter, c \in alphabet}

\* ---------------------------------------------------------------- signer
\* The data characters of the base64 alphabet that the modelled keys use.
B64Alphabet == {"A", "B"}
B64Pad == "="

\* base64.b64decode(key) with validate left False (line 66), as
\* binascii.a2b_base64 computes it: characters outside the alphabet are
\* discarded, a pad sequence that completes a quad ends the parse, and leftover
\* data characters raise binascii.Error.  data keeps the accepted data
\* characters, which determine the decoded bytes.
RECURSIVE a2b_base64(_, _, _, _, _)
a2b_base64(s, idx, quad_pos, pads, acc) ==
    IF idx > Len(s)
    THEN [ok |-> quad_pos = 0, data |-> acc]
    ELSE LET this_ch == s[idx] IN
         IF this_ch = B64Pad
         THEN IF quad_pos >= 2 /\ quad_pos + pads + 1 >= 4
              THEN [ok |-> TRUE, data |-> acc]
              ELSE a2b_base64(s, idx + 1, quad_pos,
                              IF quad_pos >= 2 THEN pads + 1 ELSE pads, acc)
         ELSE IF this_ch \notin B64Alphabet
         THEN a2b_base64(s, idx + 1, quad_pos, pads, acc)
         ELSE a2b_base64(s, idx + 1, (quad_pos + 1) % 4, 0, Append(acc, this_ch))

b64decode(key) == a2b_base64(key, 1, 0, 0, <<>>)

\* hmac.digest(key, msg, sha256): the digest is kept symbolic, as the pair it
\* is computed from (equal inputs give equal digests, and distinct inputs are
\* taken to give distinct digests).
HmacSha256(keyBytes, msg) == [key |-> keyBytes, msg |-> msg]

NL == <<"\n">>

\* Payload with the verb signed as given, not lower-cased.
Payload_VerbAsGiven(verb, resource_type, resource_link, date) ==
    verb \o NL \o Lower(resource_type) \o NL \o resource_link \o NL
        \o Lower(date) \o NL \o NL
\* The payload of lines 63-65.
Payload(verb, resource_type, resource_link, date) ==
    Lower(verb) \o NL \o Lower(resource_type) \o NL \o resource_link \o NL
        \o Lower(date) \o NL \o NL

\* _get_auth_header: raises binascii.Error (raised = TRUE) when the key does
\* not decode; otherwise the token is the quoted "type=master&ver=1.0&sig="
\* followed by the quoted base64 text of the digest, which is kept symbolic.
get_auth_header(key, verb, resource_type, resource_link, date) ==
    LET decoded == b64decode(key)
        payload == Payload(verb, resource_type, resource_link, date)
    IN  IF ~decoded.ok
        THEN [raised |-> TRUE, prefix |-> "", sig |-> HmacSha256(<<>>, <<>>)]
        ELSE [raised |-> FALSE,
              prefix |-> "type%3Dmaster%26ver%3D1.0%26sig%3D",
              sig |-> HmacSha256(decoded.data, payload)]

\* ------------------------------------------------------------- the clock
\* datetime.utcnow() is a number of seconds after 1994-11-01 08:12:31 UTC; a
\* run reads it at most six times, a second apart, so only the seconds field
\* of the formatted date changes.
TwoDigits(n) == <<DigitChars[(n \div 10) + 1], DigitChars[(n % 10) + 1]>>
BaseSecond == 31
\* date.strftime("%a, %d %b %Y %H:%M:%S GMT")
strftime(t) ==
    <<"T","u","e",","," ","0","1"," ","N","o","v"," ","1","9","9","4"," ",
      "0","8",":","1","2",":">> \o TwoDigits(BaseSecond + t)
        \o <<" ","G","M","T">>

\* ------------------------------------------------------ request builders
QueryBody == <<"{","\"","q","u","e","r","y","\"",":","\"","S","E","L","E","C",
               "T"," ","1","\"","}">>

\* list_databases up to the call of _send_request: the arguments and headers
\* of the request, or the exception of _get_auth_header.
list_databases(key, ssl_version, t) ==
    LET verb == <<"g","e","t">>
        resource_type == <<"d","b","s">>
        resource_link == <<>>
        date_str == Lower(strftime(t))
        auth == get_auth_header(key, verb, resource_type, resource_link, date_str)
    IN  [raised |-> auth.raised,
         ssl_version |-> ssl_version,
         verb |-> verb,
         resource_type |-> resource_type,
         resource_link |-> resource_link,
         authorization |-> auth,
         x_ms_date |-> date_str,
         headers |-> {"authorization", "x-ms-version", "x-ms-date",
                      "x-ms-max-item-count", "Cache-Control"},
         body |-> StrNone,
         utcnow |-> t]

\* "dbs/{}/colls/{}".format(database_name, container_name)
ResourceLink(database_name, container_name) ==
    <<"d","b","s","/">> \o database_name \o <<"/","c","o","l","l","s","/">>
        \o container_name

\* basic_query up to the call of _send_request.
basic_query(key, ssl_version, database_name, container_name, t) ==
    LET verb == <<"p","o","s","t">>
        resource_type == <<"d","o","c","s">>
        resource_link == ResourceLink(database_name, container_name)
        date_str == Lower(strftime(t))
        auth == get_auth_header(key, verb, resource_type, resource_link, date_str)
    IN  [raised |-> auth.raised,
         ssl_version |-> ssl_version,
         verb |-> verb,
         resource_type |-> resource_type,
         resource_link |-> resource_link,
         authorization |-> auth,
         x_ms_date |-> date_str,
         headers |-> {"content-type", "authorization", "x-ms-version",
                      "x-ms-date", "x-ms-documentdb-isquery", "Cache-Control"},
         body |-> PyStr(QueryBody),
         utcnow |-> t]

\* ------------------------------------------------- candidate enumeration
\* Constants of Python's ssl module read by _get_supported_ssl_versions.
PROTOCOL_SSLv2 == 0
PROTOCOL_SSLv3 == 1
PROTOCOL_TLSv1 == 3
PROTOCOL_TLSv1_1 == 4
PROTOCOL_TLSv1_2 == 5
\* The OP_NO_* option bits: each is a distinct single bit (OP_NO_SSLv2 is 0
\* when built against OpenSSL 1.1 or later, which changes no result here).
OP_NO_SSLv2 == 16777216
OP_NO_SSLv3 == 33554432
OP_NO_TLSv1 == 67108864
OP_NO_TLSv1_1 == 268435456
OP_NO_TLSv1_2 == 134217728

\* Python's a & b on non-negative ints
RECURSIVE BitAnd(_, _)
BitAnd(a, b) ==
    IF a = 0 \/ b = 0 THEN 0
    ELSE (a % 2) * (b % 2) + 2 * BitAnd(a \div 2, b \div 2)

HasFlags == {"HAS_SSLv2", "HAS_SSLv3", "HAS_TLSv1", "HAS_TLSv1_1",
             "HAS_TLSv1_2", "HAS_TLSv1_3"}

\* The value appended for "TLS V1.3" (lines 186-192).
Tls13Value(has) ==
    IF has["HAS_TLSv1_2"]
    THEN PyInt(BitAnd(BitAnd(BitAnd(BitAnd(OP_NO_SSLv2, OP_NO_SSLv3),
                                    OP_NO_TLSv1), OP_NO_TLSv1_1), OP_NO_TLSv1_2))
    ELSE PyNone

\* _get_supported_ssl_versions(): the list of (name, ssl flag) under the
\* capabilities has of the local ssl module.
get_supported_ssl_versions(has) ==
    << [name |-> "SSL V2 (not supported by Azure Cosmos DB)",
        ssl_version |-> IF has["HAS_SSLv2"] THEN PyInt(PROTOCOL_SSLv2) ELSE PyNone],
       [name |-> "SSL V3 (not supported by Azure Cosmos DB)",
        ssl_version |-> IF has["HAS_SSLv3"] THEN PyInt(PROTOCOL_SSLv3) ELSE PyNone],
       [name |-> "TLS V1  ",
        ssl_version |-> IF has["HAS_TLSv1"] THEN PyInt(PROTOCOL_TLSv1) ELSE PyNone],
       [name |-> "TLS V1.1",
        ssl_version |-> IF has["HAS_TLSv1_1"] THEN PyInt(PROTOCOL_TLSv1_1) ELSE PyNone],
       [name |-> "TLS V1.2",
        ssl_version |-> IF has["HAS_TLSv1_2"] THEN PyInt(PROTOCOL_TLSv1_2) ELSE PyNone],
       [name |-> "TLS V1.3", ssl_version |-> Tls13Value(has)] >>

\* -------------------------------------------------------- classification
\* requests.Response.ok: raise_for_status() does not raise, that is the status
\* is not in 400..599.
ResponseOk(response) == ~(400 <= response.status_code /\ response.status_code < 600)

TLS == <<"T","L","S">>

\* Classify with the body tested before the status.
Classify_BodyFirst(ssl_version_name, query_type, response) ==
    IF Contains(response.text, TLS)
    THEN [name |-> ssl_version_name, query_type |-> query_type,
          outcome |-> "Not supported", status_code |-> PyNone, text |-> <<>>]
    ELSE IF ResponseOk(response)
    THEN [name |-> ssl_version_name, query_type |-> query_type,
          outcome |-> "Supported", status_code |-> PyNone, text |-> <<>>]
    ELSE [name |-> "", query_type |-> "",
          outcome |-> "Connection error",
          status_code |-> PyInt(response.status_code), text |-> response.text]
\* The line printed for a response (lines 235-240).
Classify(ssl_version_name, query_type, response) ==
    IF ResponseOk(response)
    THEN [name |-> ssl_version_name, query_type |-> query_type,
          outcome |-> "Supported", status_code |-> PyNone, text |-> <<>>]
    ELSE IF Contains(response.text, TLS)
    THEN [name |-> ssl_version_name, query_type |-> query_type,
          outcome |-> "Not supported", status_code |-> PyNone, text |-> <<>>]
    ELSE [name |-> "", query_type |-> "",
          outcome |-> "Connection error",
          status_code |-> PyInt(response.status_code), text |-> response.text]

\* The line printed for a version the client cannot offer (line 218).
ClientUnsupportedLine(ssl_version_name) ==
    [name |-> ssl_version_name, query_type |-> "",
     outcome |-> "Not supported by client", status_code |-> PyNone, text |-> <<>>]

\* ------------------------------------------------------------- the state
VARIABLES
    has,           \* capabilities of the local ssl module (ssl.HAS_*)
    argv,          \* the parsed command line, as given
    args,          \* the argparse namespace main reads and rewrites
    pc,            \* "start", "loop", "done", or "aborted" (uncaught exception)
    i,             \* position of the for loop of line 216 in ssl_versions
    ssl_versions,  \* the list of line 212
    output,        \* the outcome lines printed so far, with their candidate
    sent,          \* the calls of session.request made so far, with their candidate
    raised,        \* the exception that ended the run, "" when none
    clock,         \* seconds elapsed at the next reading of datetime.utcnow()
    response,      \* classification alone: the response under test
    printed,       \* classification alone: the line printed for it
    call,          \* signer alone: the arguments of two calls
    tokens         \* signer alone: the results of the two calls

vars == <<has, argv, args, pc, i, ssl_versions, output, sent, raised, clock,
          response, printed, call, tokens>>
mainVars == <<has, argv, args, pc, i, ssl_versions, output, sent, raised, clock>>
classifyVars == <<response, printed>>
signVars == <<call, tokens>>

\* --------------------------------------------------------------- inputs
\* Longest database or collection name on the command line.
MaxNameLen == 1
NameAlphabet == {" ", "d"}
\* argparse gives None for an option that is absent.
Names == {StrNone} \cup {PyStr(s) : s \in SeqsUpTo(NameAlphabet, MaxNameLen)}

\* Authorization keys: well-formed without and with padding, with a data
\* character missing, and with a character outside the base64 alphabet.
Keys == { <<"A","A","A","A">>, <<"A","B","=","=">>, <<"A","A","A">>,
          <<"A","!","A","A","A">> }

\* What the endpoint may answer to a request.
ServerResponses ==
    { [status_code |-> 200, text |-> <<"T","L","S">>],
      [status_code |-> 400, text |-> <<"n","o"," ","T","L","S">>],
      [status_code |-> 401, text |-> <<"t","l","s">>] }

NoResponse == [status_code |-> 0, text |-> <<>>]
NoLine == [name |-> "", query_type |-> "", outcome |-> "",
           status_code |-> PyNone, text |-> <<>>]
NoCall == [key |-> <<>>, verb |-> <<>>, resource_type |-> <<>>,
           resource_link |-> <<>>, date |-> <<>>]

IdleMain ==
    /\ has = [f \in HasFlags |-> FALSE]
    /\ argv = [authorization_key |-> <<>>, database_name |-> StrNone,
               collection_name |-> StrNone]
    /\ args = argv
    /\ pc = "idle" /\ i = 0 /\ ssl_versions = <<>> /\ output = <<>>
    /\ sent = <<>> /\ raised = "" /\ clock = 0
IdleClassify == response = NoResponse /\ printed = NoLine
IdleSign == call = <<NoCall, NoCall>> /\ tokens = <<>>

\* ------------------------------------------------------------------ main
Init ==
    /\ has \in [HasFlags -> BOOLEAN]
    /\ argv \in [authorization_key : Keys, database_name : Names,
                 collection_name : Names]
    /\ args = argv
    /\ pc = "start" /\ i = 0 /\ ssl_versions = <<>> /\ output = <<>>
    /\ sent = <<>> /\ raised = "" /\ clock = 0
    /\ IdleClassify /\ IdleSign

\* The test of line 203.
NamesGiven(a) == TruthyStr(a.database_name) /\ TruthyStr(a.collection_name)

\* main before the loop (lines 199-214).
Main_Start ==
    /\ pc = "start"
    /\ args' = IF NamesGiven(args)
               THEN [authorization_key |-> Strip(args.authorization_key),
                     database_name |-> PyStr(Strip(args.database_name.s)),
                     collection_name |-> PyStr(Strip(args.collection_name.s))]
               ELSE [args EXCEPT !.authorization_key = Strip(@)]
    /\ ssl_versions' = get_supported_ssl_versions(has)
    /\ i' = 1
    /\ pc' = "loop"
    /\ UNCHANGED <<has, argv, output, sent, raised, clock, classifyVars, signVars>>

\* The for loop moves to the next candidate, or ends after the last.
Advance ==
    /\ i' = i + 1
    /\ pc' = IF i = Len(ssl_versions) THEN "done" ELSE "loop"

\* Lines 217-218.
Loop_ClientUnsupported ==
    /\ pc = "loop"
    /\ ~TruthyInt(ssl_versions[i].ssl_version)
    /\ output' = Append(output,
           [cand |-> i, line |-> ClientUnsupportedLine(ssl_versions[i].name)])
    /\ Advance
    /\ UNCHANGED <<has, argv, args, ssl_versions, sent, raised, clock,
                   classifyVars, signVars>>

\* QueryChosen with the collection name left untested.
QueryChosen_DatabaseOnly(a) == TruthyStr(a.database_name)
\* The test of line 220.
QueryChosen(a) == TruthyStr(a.database_name) /\ TruthyStr(a.collection_name)

QueryType(a) == IF QueryChosen(a) THEN "Basic Query" ELSE "List Databases"

\* "{}".format(x)
Format(v) == IF v.none THEN <<"N","o","n","e">> ELSE v.s

\* The request of lines 220-233, built at clock reading t.
BuildRequest(a, ssl_version, t) ==
    IF QueryChosen(a)
    THEN basic_query(a.authorization_key, ssl_version,
                     Format(a.database_name), Format(a.collection_name), t)
    ELSE list_databases(a.authorization_key, ssl_version, t)

\* Lines 220-233 when _get_auth_header raises: nothing catches it.
Probe_KeyError ==
    /\ pc = "loop"
    /\ TruthyInt(ssl_versions[i].ssl_version)
    /\ BuildRequest(args, ssl_versions[i].ssl_version.val, clock).raised
    /\ clock' = clock + 1
    /\ pc' = "aborted"
    /\ raised' = "binascii.Error"
    /\ UNCHANGED <<has, argv, args, i, ssl_versions, output, sent,
                   classifyVars, signVars>>

\* Lines 220-233 when session.request raises (handshake or connection
\* failure): nothing catches it.
Probe_TransportFailure ==
    /\ pc = "loop"
    /\ TruthyInt(ssl_versions[i].ssl_version)
    /\ LET request == BuildRequest(args, ssl_versions[i].ssl_version.val, clock) IN
        /\ ~request.raised
        /\ sent' = Append(sent, [cand |-> i, request |-> request])
    /\ clock' = clock + 1
    /\ pc' = "aborted"
    /\ raised' = "requests.exceptions.ConnectionError"
    /\ UNCHANGED <<has, argv, args, i, ssl_versions, output,
                   classifyVars, signVars>>

\* Lines 220-240 when session.request returns a response.
Probe_Response ==
    /\ pc = "loop"
    /\ TruthyInt(ssl_versions[i].ssl_version)
    /\ \E r \in ServerResponses :
        LET request == BuildRequest(args, ssl_versions[i].ssl_version.val, clock) IN
        /\ ~request.raised
        /\ sent' = Append(sent, [cand |-> i, request |-> request])
        /\ output' = Append(output,
               [cand |-> i,
                line |-> Classify(ssl_versions[i].name, QueryType(args), r)])
    /\ clock' = clock + 1
    /\ Advance
    /\ UNCHANGED <<has, argv, args, ssl_versions, raised, classifyVars, signVars>>

Next ==
    \/ Main_Start
    \/ Loop_ClientUnsupported
    \/ Probe_KeyError
    \/ Probe_TransportFailure
    \/ Probe_Response

Spec == Init /\ [][Next]_vars

\* -------------------------------------------------- classification alone
BodyAlphabet == {"T", "L", "S", "t"}
Statuses == {200, 201, 304, 399, 400, 401, 503, 599}

InitClassify ==
    /\ IdleMain /\ IdleSign
    /\ response \in [status_code : Statuses,
                     text : SeqsUpTo(BodyAlphabet, MaxBodyLen)]
    /\ printed = NoLine

\* Lines 235-240 applied to the response.
Classify_Response ==
    /\ printed = NoLine
    /\ \E n \in {"TLS V1  ", "TLS V1.2"}, q \in {"Basic Query", "List Databases"} :
        printed' = Classify(n, q, response)
    /\ UNCHANGED <<mainVars, response, signVars>>

NextClassify == Classify_Response

SpecClassify == InitClassify /\ [][NextClassify]_vars

\* ---------------------------------------------------------- signer alone
SignKeys == { <<"A","A","A","A">>, <<"A","B","=","=">>, <<"A","A","A">> }
SignVerbs == { <<"g","e","t">>, <<"G","E","T">>, <<"p","o","s","t">> }
SignTypes == { <<"d","b","s">>, <<"D","b","s">>, <<"d","o","c","s">> }
SignLinks == { <<"d","b","s","/","d">>, <<"d","b","s","/","D">> }
SignDates == { strftime(0), Lower(strftime(0)) }
Calls == [key : SignKeys, verb : SignVerbs, resource_type : SignTypes,
          resource_link : SignLinks, date : SignDates]

InitSign ==
    /\ IdleMain /\ IdleClassify
    /\ call \in Calls \X Calls
    /\ tokens = <<>>

SignCall(c) ==
    get_auth_header(c.key, c.verb, c.resource_type, c.resource_link, c.date)

\* Two calls of _get_auth_header.
Sign_Calls ==
    /\ tokens = <<>>
    /\ tokens' = <<SignCall(call[1]), SignCall(call[2])>>
    /\ UNCHANGED <<mainVars, classifyVars, call>>

NextSign == Sign_Calls

SpecSign == InitSign /\ [][NextSign]_vars

\* ================================================================ claims
\* The capability flag of the local ssl module that says whether candidate k
\* of the list can be offered.
CandidateFlag == <<"HAS_SSLv2", "HAS_SSLv3", "HAS_TLSv1", "HAS_TLSv1_1",
                   "HAS_TLSv1_2", "HAS_TLSv1_3">>
NumCandidates == Len(CandidateFlag)

\* Well-formed base64 text (RFC 4648): only alphabet characters, a length
\* that is a multiple of four, and at most two pad characters, at the end.
StrictBase64(s) ==
    /\ Len(s) % 4 = 0
    /\ \A k \in 1..Len(s) : s[k] \in B64Alphabet \cup {B64Pad}
    /\ \A k \in 1..Len(s) : s[k] = B64Pad =>
          /\ k >= Len(s) - 1
          /\ \A m \in k..Len(s) : s[m] = B64Pad

KeyGiven == Strip(argv.authorization_key)
RunEnded == pc \in {"done", "aborted"}
SentFor(k) == {m \in 1..Len(sent) : sent[m].cand = k}
OutputFor(k) == {m \in 1..Len(output) : output[m].cand = k}

\* C1: a failed probe (an HTTP failure response, or a transport-level failure
\* raised by the request) never aborts the run: no run ends on the exception
\* of a request.
C1_ProbeFailureNeverAborts ==
    ~(pc = "aborted" /\ raised = "requests.exceptions.ConnectionError")

\* C2: for a candidate whose entry in ssl_versions carries no protocol value
\* (None), no request is ever sent, every outcome reported for it is "Not
\* supported by client", and one is reported as soon as the loop has passed it.
C2_ClientUnsupportedNeverProbed ==
    \A k \in 1..Len(ssl_versions) :
        ssl_versions[k].ssl_version.none =>
            /\ SentFor(k) = {}
            /\ \A m \in OutputFor(k) :
                  output[m].line = ClientUnsupportedLine(ssl_versions[k].name)
            /\ i > k => OutputFor(k) # {}

\* A finished run in which a candidate without a protocol value was reported
\* and another candidate was probed.
C2_Witness ==
    /\ pc = "done"
    /\ sent # <<>>
    /\ \E k \in 1..Len(ssl_versions) :
          /\ ssl_versions[k].ssl_version.none
          /\ \E m \in OutputFor(k) :
                output[m].line.outcome = "Not supported by client"

HasTLS(text) ==
    \E k \in 1..(Len(text) - 2) :
        text[k] = "T" /\ text[k + 1] = "L" /\ text[k + 2] = "S"
IsFailureStatus(status) == status \in 400..599

\* C3: the line printed for a response is "Supported" exactly when the status
\* is not a failure (4xx or 5xx), "Not supported" exactly when it is a failure
\* and the body contains "TLS", and "Connection error" with the status and the
\* body in every other case; it is always one of the three.
C3_ClassificationOfResponses ==
    printed # NoLine =>
        LET failure == IsFailureStatus(response.status_code)
            tls == HasTLS(response.text)
        IN  /\ printed.outcome \in {"Supported", "Not supported", "Connection error"}
            /\ printed.outcome = "Supported" <=> ~failure
            /\ printed.outcome = "Not supported" <=> (failure /\ tls)
            /\ printed.outcome = "Connection error" <=> (failure /\ ~tls)
            /\ printed.outcome = "Connection error" =>
                  /\ printed.status_code = PyInt(response.status_code)
                  /\ printed.text = response.text

\* A success whose body contains "TLS" was classified as Supported.
C3_Witness ==
    /\ printed.outcome = "Supported"
    /\ HasTLS(response.text)
    /\ response.status_code = 200

\* C4: a probe that failed at the transport level is reported for its version
\* as a connection error without an HTTP status.
C4_TransportFailureReported ==
    raised = "requests.exceptions.ConnectionError" =>
        \E m \in OutputFor(i) :
            /\ output[m].line.outcome = "Connection error"
            /\ output[m].line.status_code.none

\* C5: a run with a well-formed key that has ended has reported exactly one
\* outcome for each of the six candidates, in the order of the list.
C5_OneOutcomePerCandidateInOrder ==
    (RunEnded /\ StrictBase64(KeyGiven)) =>
        /\ Len(output) = NumCandidates
        /\ \A k \in 1..Len(output) : output[k].cand = k

\* C6: with a key that is not well-formed base64 no request is ever sent, no
\* probe outcome is reported and the run does not complete.
C6_MalformedKeySendsNothing ==
    ~StrictBase64(KeyGiven) =>
        /\ sent = <<>>
        /\ pc # "done"
        /\ \A m \in 1..Len(output) :
              output[m].line.outcome = "Not supported by client"

SameUpToCase(c, d) ==
    /\ c.key = d.key
    /\ c.resource_link = d.resource_link
    /\ Lower(c.verb) = Lower(d.verb)
    /\ Lower(c.resource_type) = Lower(d.resource_type)
    /\ Lower(c.date) = Lower(d.date)
LinkCaseOnly(c, d) ==
    /\ c.key = d.key
    /\ c.resource_link # d.resource_link
    /\ Lower(c.resource_link) = Lower(d.resource_link)
    /\ Lower(c.verb) = Lower(d.verb)
    /\ Lower(c.resource_type) = Lower(d.resource_type)
    /\ Lower(c.date) = Lower(d.date)

\* C7: two calls of _get_auth_header whose key and resource link are equal and
\* whose verb, resource type and date are equal up to letter case return the
\* same token, and two calls that differ in the letter case of the resource
\* link sign different payloads.
C7_TokenUpToCase ==
    (tokens # <<>> /\ ~tokens[1].raised /\ ~tokens[2].raised) =>
        /\ SameUpToCase(call[1], call[2]) => tokens[1] = tokens[2]
        /\ LinkCaseOnly(call[1], call[2]) =>
              tokens[1].sig.msg # tokens[2].sig.msg

\* Two calls that differ in the letter case of verb, resource type and date
\* returned one token.
C7_Witness ==
    /\ tokens # <<>>
    /\ ~tokens[1].raised
    /\ call[1].verb # call[2].verb
    /\ call[1].resource_type # call[2].resource_type
    /\ call[1].date # call[2].date
    /\ SameUpToCase(call[1], call[2])
    /\ tokens[1] = tokens[2]

\* C8: each candidate, TLS V1.3 included, counts as negotiable exactly when
\* the local ssl module can offer it, and a finished run has sent exactly one
\* request for every candidate the module can offer, over a connection pinned
\* to the candidate's protocol value.
C8_NegotiableAndProbedOnce ==
    /\ pc # "start" =>
          \A k \in 1..NumCandidates :
              TruthyInt(ssl_versions[k].ssl_version) <=> has[CandidateFlag[k]]
    /\ pc = "done" =>
          \A k \in 1..NumCandidates :
              has[CandidateFlag[k]] =>
                  /\ Cardinality(SentFor(k)) = 1
                  /\ \A m \in SentFor(k) :
                        sent[m].request.ssl_version = ssl_versions[k].ssl_version.val

\* A target is a database together with a collection, neither of them blank.
TargetGiven ==
    /\ ~argv.database_name.none /\ Strip(argv.database_name.s) # <<>>
    /\ ~argv.collection_name.none /\ Strip(argv.collection_name.s) # <<>>

\* C9: every request sent is a "run query" request (POST, "docs",
\* "dbs/{database}/colls/{collection}", the literal query body) when a target
\* is given and a "list databases" request (GET, "dbs", empty resource link,
\* no body) when none is, so all requests of a run are of one kind.
C9_RequestKindFollowsTarget ==
    \A m \in 1..Len(sent) :
        LET r == sent[m].request IN
        IF TargetGiven
        THEN /\ Upper(r.verb) = <<"P","O","S","T">>
             /\ r.resource_type = <<"d","o","c","s">>
             /\ r.resource_link =
                   <<"d","b","s","/">> \o Strip(argv.database_name.s)
                       \o <<"/","c","o","l","l","s","/">>
                       \o Strip(argv.collection_name.s)
             /\ r.body = PyStr(QueryBody)
        ELSE /\ Upper(r.verb) = <<"G","E","T">>
             /\ r.resource_type = <<"d","b","s">>
             /\ r.resource_link = <<>>
             /\ r.body.none

\* Two query requests were sent in a run that was given a target.
C9_Witness ==
    /\ TargetGiven
    /\ Len(sent) >= 2
    /\ sent[1].request.resource_type = <<"d","o","c","s">>

\* C10: in every request sent the signed payload ends with the lower-cased
\* date while the x-ms-date header carries the date as formatted, in mixed
\* case.
C10_HeaderDateMixedCase ==
    \A m \in 1..Len(sent) :
        LET r == sent[m].request
            date == strftime(r.utcnow)
        IN  /\ Contains(r.authorization.sig.msg, Lower(date) \o NL \o NL)
            /\ r.x_ms_date = date
            /\ r.x_ms_date # Lower(date)

====
